---- MODULE Spec2Model ----
(***************************************************************************)
(* Model of the Jetstream ingestion pipeline:                              *)
(*   - JetstreamCollector (stream connector, cursor store)                 *)
(*   - JetstreamProcessor (message router, normalizers, writers)           *)
(*   - the wiring of the two in the program entry point                    *)
(*                                                                         *)
(* Specifications:                                                         *)
(*   SpecProc    the processor alone, driven through processMessage with   *)
(*               events of every kind                                      *)
(*   SpecFault   the processor alone, fed well-formed, malformed,          *)
(*               well-formed                                               *)
(*   Spec        the whole pipeline as the entry point wires it (socket,   *)
(*               cursor writes, 'message' emission, processor)             *)
(*   SpecConfig  the pipeline around a collector with a configured cursor  *)
(***************************************************************************)
EXTENDS Integers, Sequences, FiniteSets, TLC

\* ------------------------------------------------------------------ bounds
MaxDeliver == 2      \* events handed to processMessage in SpecProc
MaxClock == 1        \* readings of the wall clock (new Date())
MaxFrames == 2       \* frames received over all connections in Spec
MaxBad == 1          \* frames that fail to decode in SpecDecode
MaxConnects == 2     \* sockets created by connect() in Spec
MaxText == 2         \* characters of a post text in SpecNorm
MaxFacets == 2       \* facets of a post record in SpecNorm
MaxImages == 2       \* entries of an images embed in SpecNorm
MaxPool == 3         \* largest pool size (config max) in SpecReset
MaxStarts == 3       \* start() calls that get past the isRunning test in SpecSched

\* --------------------------------------------------------------- constants
SafetyMargin == 5000000

\* An optional value: Absent, or Some(v).
Absent == <<>>
Some(v) == <<v>>
The(o) == o[1]

Max(a, b) == IF a >= b THEN a ELSE b

\* ------------------------------------------------------------------ schema
\* Columns of the tables created by initDb.
UsersColumns ==
    {"did", "handle", "display_name", "description", "avatar_url",
     "follower_count", "following_count", "post_count", "activity_level",
     "account_age_days"}

PostsColumns ==
    {"id", "did", "rkey", "uri", "cid", "text", "created_at", "hour_timestamp",
     "indexed_at", "text_length", "has_image", "image_count",
     "has_external_link", "has_mention", "mention_count", "hashtag_count",
     "reply_to", "reply_root", "thread_depth", "language"}

EngagementsColumns ==
    {"id", "post_uri", "actor_did", "type", "created_at", "reply_uri",
     "time_to_engage", "actor_follows_author", "raw_data"}

FollowsColumns == {"follower_did", "followed_did", "created_at"}

\* Columns named by the INSERT statement of each writer.
StorePostColumns ==
    {"did", "rkey", "uri", "cid", "text", "created_at", "hour_timestamp",
     "indexed_at", "text_length", "has_image", "image_count",
     "has_external_link", "has_mention", "mention_count", "hashtag_count",
     "reply_to", "reply_root", "thread_depth", "language"}

StoreEngagementColumns ==
    {"post_uri", "actor_did", "type", "created_at", "reply_uri",
     "time_to_engage", "actor_follows_author", "raw_data"}

StoreFollowColumns == {"follower_did", "followed_did", "created_at"}

UpdateUserProfileColumns ==
    {"did", "handle", "display_name", "description", "avatar_url",
     "follower_count", "following_count", "post_count", "first_seen_at",
     "last_updated_at"}

UpdateUserHandleColumns == {"did", "handle", "last_updated_at"}

\* ------------------------------------------------------------------ events
\* A raw event.  commit = FALSE: no commit payload.  shape = "norecord": the
\* commit carries no record object, so reading a field of it throws.  ver
\* stands for the content of the record (text, createdAt, cid, ...).
\* time = 0: the event carries no time_us.
Dids == {"d1"}
Rkeys == {"r1"}

Ev(commit, collection, operation, handle, shape, ver, time) ==
    [did |-> "d1", rkey |-> "r1", commit |-> commit, collection |-> collection,
     operation |-> operation, handle |-> handle, shape |-> shape, ver |-> ver,
     time |-> time]

PostEvent(shape, ver, time) ==
    Ev(TRUE, "app.bsky.feed.post", "create", FALSE, shape, ver, time)

\* Events handed to the processor in SpecProc.
ProcEvents ==
    {PostEvent("ok", 1, 1), PostEvent("ok", 2, 1), PostEvent("norecord", 1, 1),
     Ev(TRUE, "app.bsky.feed.post", "delete", FALSE, "ok", 1, 1),
     Ev(TRUE, "app.bsky.feed.like", "create", FALSE, "ok", 1, 1),
     Ev(TRUE, "app.bsky.feed.like", "create", FALSE, "norecord", 1, 1),
     Ev(TRUE, "app.bsky.feed.repost", "create", FALSE, "ok", 1, 1),
     Ev(TRUE, "app.bsky.graph.follow", "create", FALSE, "ok", 1, 1),
     Ev(TRUE, "app.bsky.actor.profile", "create", FALSE, "ok", 1, 1),
     Ev(TRUE, "app.bsky.feed.generator", "create", FALSE, "ok", 1, 1),
     \* a delete commit carries no record
     Ev(TRUE, "app.bsky.feed.like", "delete", FALSE, "norecord", 1, 1),
     Ev(TRUE, "app.bsky.feed.repost", "delete", FALSE, "norecord", 1, 1),
     Ev(TRUE, "app.bsky.graph.follow", "delete", FALSE, "norecord", 1, 1),
     Ev(TRUE, "app.bsky.actor.profile", "update", FALSE, "ok", 1, 1),
     Ev(FALSE, "", "", TRUE, "ok", 1, 1),
     Ev(FALSE, "", "", FALSE, "ok", 1, 1)}

\* time_us values the feed stamps on events in Spec.
TimeValues == {1, 6000000, 7000000}

\* Frames the feed delivers in Spec: posts, with or without time_us, and a
\* post whose commit has no record.
FeedEvents ==
    {PostEvent("ok", 1, t) : t \in TimeValues \cup {0}}
        \cup {PostEvent("norecord", 1, 1)}

PostUri(did, rkey) == <<did, "app.bsky.feed.post", rkey>>


PostUris == {PostUri(d, r) : d \in Dids, r \in Rkeys}
EngagementKeys == PostUris \X Dids \X {"like", "repost"}
FollowKeys == Dids \X Dids

\* ------------------------------------------------------------------- state
VARIABLES
    \* JetstreamProcessor
    isRunning,      \* processor.isRunning
    errorListener,  \* a listener is subscribed to the processor's 'error'
    tasks,          \* handler invocations awaiting their writer's query
    store,          \* the tables posts, engagements, follows, users
    signals,        \* emit() calls of the processor, in order
    rejected,       \* events whose processMessage call rejected
    now,            \* the wall clock
    \* history of the run
    frames,         \* events received, in arrival order
    outcome,        \* what became of each received event
    applied,        \* arrival numbers of the events written to the store, in order
    \* JetstreamCollector and the entry point
    mainPc,         \* position of the entry point (run / signal handlers)
    sockets,        \* state of every WebSocket created by connect()
    ws,             \* collector.ws: index of the current socket, 0 for null
    timers,         \* pending reconnect timers
    lastCursor,     \* collector.lastCursor
    cursorRow,      \* cursor_state row 'main_cursor' (Absent: no row)
    configCursor,   \* config.cursor (Absent: undefined)
    requests,       \* cursor parameter of every URL built, with lastCursor then
    cwrites,        \* updateCursor queries in flight
    emitted,        \* arrival numbers of the frames emitted as 'message', in order
    feedPos,        \* position of the feed on the current connection
    poolEnded,      \* pgPool.end() has been called
    badFrames,      \* frames received that failed to decode
    collectorErrors, \* emit('error') calls of the collector
    clients,        \* pool clients the writers acquired: releases of each
    poolMax,        \* max of pgConfig: the size of each pool
    resetPc,        \* position of each resetDb() call
    resetHeld,      \* clients each resetDb() call holds of its pool
    requireHello,   \* config.requireHello
    hellos,         \* sockets the subscriber-options-update frame was sent on
    \* the normalizers taken alone
    record,         \* what a normalizer is applied to
    result,         \* what it returned (Absent: not applied yet)
    \* MetricsScheduler
    schedulerRunning, \* scheduler.isRunning
    schedulerTasks, \* scheduler.tasks: the entry 'shortTerm' (Absent: none)
    cronTasks,      \* the cron tasks created, each "active" or "stopped"
    startsPending   \* start() calls awaiting runInitialComputations()

procVars == <<isRunning, errorListener, tasks, store, signals, rejected, now>>
histVars == <<frames, outcome, applied>>
collVars == <<mainPc, sockets, ws, timers, lastCursor, cursorRow, configCursor,
              requests, cwrites, emitted, feedPos, poolEnded, badFrames,
              collectorErrors>>
poolVars == <<clients, poolMax, resetPc, resetHeld>>
helloVars == <<requireHello, hellos>>
normVars == <<record, result>>
schedVars == <<schedulerRunning, schedulerTasks, cronTasks, startsPending>>
vars == <<procVars, histVars, collVars, poolVars, helloVars, normVars,
          schedVars>>

EmptyStore ==
    [posts |-> [u \in PostUris |-> Absent],
     engagements |-> [k \in EngagementKeys |-> Absent],
     follows |-> [k \in FollowKeys |-> Absent],
     users |-> [d \in Dids |-> Absent]]

\* ------------------------------------------------------------------ router
\* A router that sends a post to the post handler whatever its operation.
RoutePostAny(ev) ==
    IF ~ev.commit
    THEN IF ev.handle THEN "account" ELSE "none"
    ELSE IF ev.collection = "app.bsky.feed.post" THEN "post"
    ELSE IF ev.collection = "app.bsky.feed.like" THEN "like"
    ELSE IF ev.collection = "app.bsky.feed.repost" THEN "repost"
    ELSE IF ev.collection = "app.bsky.graph.follow" THEN "follow"
    ELSE IF ev.collection = "app.bsky.actor.profile" THEN "profile"
    ELSE "unmatched"

\* A router that sends likes, reposts, follows and profiles to their handler
\* only when the operation is create.
RouteCreateOnly(ev) ==
    IF ~ev.commit
    THEN IF ev.handle THEN "account" ELSE "none"
    ELSE IF ev.operation # "create" THEN "unmatched"
    ELSE IF ev.collection = "app.bsky.feed.post" THEN "post"
    ELSE IF ev.collection = "app.bsky.feed.like" THEN "like"
    ELSE IF ev.collection = "app.bsky.feed.repost" THEN "repost"
    ELSE IF ev.collection = "app.bsky.graph.follow" THEN "follow"
    ELSE IF ev.collection = "app.bsky.actor.profile" THEN "profile"
    ELSE "unmatched"

\* JetstreamProcessor.processMessage: which handler an event is dispatched to.
Route(ev) ==
    IF ~ev.commit
    THEN IF ev.handle THEN "account" ELSE "none"
    ELSE IF ev.collection = "app.bsky.feed.post" /\ ev.operation = "create"
         THEN "post"
    ELSE IF ev.collection = "app.bsky.feed.like" THEN "like"
    ELSE IF ev.collection = "app.bsky.feed.repost" THEN "repost"
    ELSE IF ev.collection = "app.bsky.graph.follow" THEN "follow"
    ELSE IF ev.collection = "app.bsky.actor.profile" THEN "profile"
    ELSE "unmatched"

Handlers == {"post", "like", "repost", "follow", "profile", "account"}

\* ------------------------------------------------------------- normalizers
\* The handler reads fields of message.commit.record before its first await;
\* with no record object that read throws inside the handler's try block.
\* processAccountUpdate reads only message.did and message.handle.
NormalizeThrows(h, ev) == h # "account" /\ ev.shape = "norecord"

\* The record a handler builds (processPost .. processAccountUpdate).
Normalize(h, ev, clock) ==
    CASE h = "post" ->
           [table |-> "posts", key |-> PostUri(ev.did, ev.rkey),
            cid |-> ev.ver, text |-> ev.ver, created_at |-> ev.ver,
            indexed_at |-> clock]
      [] h \in {"like", "repost"} ->
           [table |-> "engagements",
            key |-> <<PostUri(ev.did, ev.rkey), ev.did, h>>,
            created_at |-> ev.ver, raw_data |-> ev.ver]
      [] h = "follow" ->
           [table |-> "follows", key |-> <<ev.did, ev.did>>,
            created_at |-> ev.ver]
      [] h = "profile" ->
           [table |-> "users", key |-> ev.did, handle |-> ev.ver,
            display_name |-> ev.ver, first_seen_at |-> clock,
            last_updated_at |-> clock]
      [] h = "account" ->
           [table |-> "users", key |-> ev.did, handle |-> ev.ver,
            last_updated_at |-> clock]

\* ----------------------------------------------------------------- writers
\* Each writer returns [ok, store]: ok = FALSE when the statement raises
\* (unknown column, foreign key violation), and the store is then unchanged.
\* INSERT ... ON CONFLICT (key) DO UPDATE SET ...: with no row under the key a
\* row is inserted (rows = 1: the rows the table holds under the key); with
\* one, the columns of the SET list are assigned in that row.
StorePost(st, rec) ==
    IF ~(StorePostColumns \subseteq PostsColumns)
    THEN [ok |-> FALSE, store |-> st]
    ELSE LET old == st.posts[rec.key]
             row == IF old = Absent
                    THEN [cid |-> rec.cid, text |-> rec.text,
                          created_at |-> rec.created_at,
                          indexed_at |-> rec.indexed_at, rows |-> 1]
                    ELSE [The(old) EXCEPT !.text = rec.text,
                                          !.indexed_at = rec.indexed_at]
         IN [ok |-> TRUE, store |-> [st EXCEPT !.posts[rec.key] = Some(row)]]

StoreEngagement(st, rec) ==
    IF \/ ~(StoreEngagementColumns \subseteq EngagementsColumns)
       \/ st.posts[rec.key[1]] = Absent    \* post_uri REFERENCES posts(uri)
       \/ st.users[rec.key[2]] = Absent    \* actor_did REFERENCES users(did)
    THEN [ok |-> FALSE, store |-> st]
    ELSE LET old == st.engagements[rec.key]
             row == IF old = Absent
                    THEN [created_at |-> rec.created_at,
                          raw_data |-> rec.raw_data, rows |-> 1]
                    ELSE [The(old) EXCEPT !.created_at = rec.created_at,
                                          !.raw_data = rec.raw_data]
         IN [ok |-> TRUE, store |-> [st EXCEPT !.engagements[rec.key] = Some(row)]]

\* A follow writer on a table without its primary key, with a plain INSERT:
\* every call adds a row.
StoreFollowPlainInsert(st, rec) ==
    IF \/ ~(StoreFollowColumns \subseteq FollowsColumns)
       \/ st.users[rec.key[1]] = Absent
       \/ st.users[rec.key[2]] = Absent
    THEN [ok |-> FALSE, store |-> st]
    ELSE LET old == st.follows[rec.key]
             row == IF old = Absent
                    THEN [created_at |-> rec.created_at, rows |-> 1]
                    ELSE [The(old) EXCEPT !.rows = @ + 1]
         IN [ok |-> TRUE, store |-> [st EXCEPT !.follows[rec.key] = Some(row)]]

StoreFollow(st, rec) ==
    IF \/ ~(StoreFollowColumns \subseteq FollowsColumns)
       \/ st.users[rec.key[1]] = Absent    \* follower_did REFERENCES users(did)
       \/ st.users[rec.key[2]] = Absent    \* followed_did REFERENCES users(did)
    THEN [ok |-> FALSE, store |-> st]
    ELSE LET old == st.follows[rec.key]
             row == IF old = Absent
                    THEN [created_at |-> rec.created_at, rows |-> 1]
                    ELSE [The(old) EXCEPT !.created_at = rec.created_at]
         IN [ok |-> TRUE, store |-> [st EXCEPT !.follows[rec.key] = Some(row)]]

UpdateUserProfile(st, rec) ==
    IF ~(UpdateUserProfileColumns \subseteq UsersColumns)
    THEN [ok |-> FALSE, store |-> st]
    ELSE LET old == st.users[rec.key]
             row == IF old = Absent
                    THEN [handle |-> rec.handle,
                          display_name |-> rec.display_name,
                          first_seen_at |-> rec.first_seen_at,
                          last_updated_at |-> rec.last_updated_at, rows |-> 1]
                    ELSE [The(old) EXCEPT !.handle = rec.handle,
                                          !.display_name = rec.display_name,
                                          !.last_updated_at = rec.last_updated_at]
         IN [ok |-> TRUE, store |-> [st EXCEPT !.users[rec.key] = Some(row)]]

UpdateUserHandle(st, rec) ==
    IF ~(UpdateUserHandleColumns \subseteq UsersColumns)
    THEN [ok |-> FALSE, store |-> st]
    ELSE LET old == st.users[rec.key]
             row == IF old = Absent
                    THEN [handle |-> rec.handle, display_name |-> 0,
                          first_seen_at |-> 0,
                          last_updated_at |-> rec.last_updated_at, rows |-> 1]
                    ELSE [The(old) EXCEPT !.handle = rec.handle,
                                          !.last_updated_at = rec.last_updated_at]
         IN [ok |-> TRUE, store |-> [st EXCEPT !.users[rec.key] = Some(row)]]

Writer(h, st, rec) ==
    CASE h = "post" -> StorePost(st, rec)
      [] h \in {"like", "repost"} -> StoreEngagement(st, rec)
      [] h = "follow" -> StoreFollow(st, rec)
      [] h = "profile" -> UpdateUserProfile(st, rec)
      [] h = "account" -> UpdateUserHandle(st, rec)

\* ------------------------------------------------------------------ signals
\* One entry per emit() call of the processor.  delivered = FALSE: the signal
\* had no listener; for 'error' the emitter then throws instead of delivering.
Signal(name, type, seq, delivered) ==
    [name |-> name, type |-> type, seq |-> seq, delivered |-> delivered]

\* emit('message-processed') at the end of processMessage; not reached on the
\* no-commit path, which returns right after processAccountUpdate.
MessageProcessed(seq, ev) ==
    IF ev.commit THEN <<Signal("message-processed", ev.collection, seq, FALSE)>>
    ELSE <<>>

\* The catch block of a handler: emit('error', {type, error, message}).  With
\* a listener the handler then returns normally.  With no listener emit throws
\* out of the handler's catch block into the catch block of processMessage,
\* whose own emit('error') throws again: processMessage rejects.
ErrorPath(seq, h, ev) ==
    IF errorListener
    THEN <<Signal("error", h, seq, TRUE)>> \o MessageProcessed(seq, ev)
    ELSE <<Signal("error", h, seq, FALSE),
           Signal("error", "message", seq, FALSE)>>

ErrorRejects == ~errorListener

\* A processMessage that does not look at isRunning.
OnMessageNoGuard(seq, ev, clock) ==
    LET h == Route(ev)
        same == [tasks |-> tasks, signals |-> signals, rejected |-> rejected]
    IN  IF h = "none" THEN same @@ [status |-> "ignored"]
        ELSE IF h = "unmatched"
        THEN [same EXCEPT !.signals = signals \o MessageProcessed(seq, ev)]
             @@ [status |-> "ignored"]
        ELSE IF NormalizeThrows(h, ev)
        THEN [same EXCEPT !.signals = signals \o ErrorPath(seq, h, ev),
                          !.rejected = IF ErrorRejects THEN rejected \cup {seq}
                                       ELSE rejected]
             @@ [status |-> "failed"]
        ELSE [same EXCEPT !.tasks =
                  tasks \cup {[seq |-> seq, h |-> h, ev |-> ev,
                               rec |-> Normalize(h, ev, clock)]}]
             @@ [status |-> "inflight"]

\* ------------------------------------------------- processor: processMessage
\* The part of processMessage that runs before its first await on a query:
\* the isRunning check, the classification and the handler's normalization.
\* Returns the new tasks, signals, rejected and what became of the event.
OnMessage(seq, ev, clock) ==
    LET h == Route(ev)
        same == [tasks |-> tasks, signals |-> signals, rejected |-> rejected]
    IN  IF ~isRunning THEN same @@ [status |-> "dropped"]
        ELSE IF h = "none" THEN same @@ [status |-> "ignored"]
        ELSE IF h = "unmatched"
        THEN [same EXCEPT !.signals = signals \o MessageProcessed(seq, ev)]
             @@ [status |-> "ignored"]
        ELSE IF NormalizeThrows(h, ev)
        THEN [same EXCEPT !.signals = signals \o ErrorPath(seq, h, ev),
                          !.rejected = IF ErrorRejects THEN rejected \cup {seq}
                                       ELSE rejected]
             @@ [status |-> "failed"]
        ELSE [same EXCEPT !.tasks =
                  tasks \cup {[seq |-> seq, h |-> h, ev |-> ev,
                               rec |-> Normalize(h, ev, clock)]}]
             @@ [status |-> "inflight"]

\* processMessage called on the event with arrival number seq; oc is the
\* outcome history to extend.
ProcessMessageAt(seq, ev, oc, clock) ==
    LET r == OnMessage(seq, ev, clock)
    IN  /\ tasks' = r.tasks
        /\ signals' = r.signals
        /\ rejected' = r.rejected
        /\ outcome' = [oc EXCEPT ![seq] = r.status]

\* const client = await this.pgPool.connect() of the writer with arrival
\* number seq resolved: the client is checked out, not yet released.
Connected(cl, seq) == IF seq \in DOMAIN cl THEN cl ELSE (seq :> 0) @@ cl

\* A writer that releases its client after the query, outside any finally.
WriterClientsNoFinally(cl, seq, connected, ok) ==
    IF connected /\ ok THEN [Connected(cl, seq) EXCEPT ![seq] = @ + 1]
    ELSE IF connected THEN Connected(cl, seq)
    ELSE cl

\* What a writer does to the pool from pgPool.connect() to its end:
\* try { client = await connect(); try { query } finally { client.release() } }.
\* connected = FALSE: connect() rejected and there is no client to release.
\* ok: the query resolved.
WriterClients(cl, seq, connected, ok) ==
    IF connected THEN [Connected(cl, seq) EXCEPT ![seq] = @ + 1] ELSE cl

\* The writer's pgPool.connect() resolves while its query is still to run.
Acquire(t) ==
    /\ t \in tasks
    /\ mainPc \notin {"exited", "failed"}
    /\ t.seq \notin DOMAIN clients
    /\ clients' = Connected(clients, t.seq)
    /\ UNCHANGED <<procVars, histVars, collVars, helloVars, normVars, schedVars,
                   poolMax, resetPc, resetHeld>>

\* The writer's query of one handler invocation completes; the handler and
\* processMessage run to their end.  dbOk = FALSE: the store is unreachable
\* and the query rejects, or connect() does when no client was acquired yet.
WriterDone(t, dbOk) ==
    /\ t \in tasks
    /\ mainPc \notin {"exited", "failed"}
    /\ LET r == IF dbOk THEN Writer(t.h, store, t.rec)
                ELSE [ok |-> FALSE, store |-> store]
       IN  /\ store' = r.store
           /\ clients' = WriterClients(clients, t.seq,
                                       dbOk \/ t.seq \in DOMAIN clients, r.ok)
           /\ tasks' = tasks \ {t}
           /\ IF r.ok
              THEN /\ signals' = signals
                          \o <<Signal(t.h \o "-processed", t.h, t.seq, FALSE)>>
                          \o MessageProcessed(t.seq, t.ev)
                   /\ rejected' = rejected
                   /\ outcome' = [outcome EXCEPT ![t.seq] = "persisted"]
                   /\ applied' = Append(applied, t.seq)
              ELSE /\ signals' = signals \o ErrorPath(t.seq, t.h, t.ev)
                   /\ rejected' = IF ErrorRejects THEN rejected \cup {t.seq}
                                  ELSE rejected
                   /\ outcome' = [outcome EXCEPT ![t.seq] = "failed"]
                   /\ applied' = applied
    /\ UNCHANGED <<helloVars, normVars, schedVars, poolMax, resetPc, resetHeld,
                   isRunning, errorListener, now, frames, collVars>>

\* ------------------------------------------------------------- SpecProc
\* JetstreamProcessor.start(), called once by the client of the processor.
Start ==
    /\ mainPc = "created"
    /\ mainPc' = "started"
    /\ isRunning' = TRUE
    /\ UNCHANGED <<poolVars, helloVars, normVars, schedVars,
                   errorListener, tasks, store, signals, rejected, now,
                   histVars, sockets, ws, timers, lastCursor, cursorRow,
                   configCursor, requests, cwrites, emitted, feedPos,
                   poolEnded, badFrames, collectorErrors>>

\* JetstreamProcessor.stop()
Stop ==
    /\ mainPc = "started"
    /\ mainPc' = "stopped"
    /\ isRunning' = FALSE
    /\ UNCHANGED <<poolVars, helloVars, normVars, schedVars,
                   errorListener, tasks, store, signals, rejected, now,
                   histVars, sockets, ws, timers, lastCursor, cursorRow,
                   configCursor, requests, cwrites, emitted, feedPos,
                   poolEnded, badFrames, collectorErrors>>

\* The handlers that stamp their record with new Date().
ReadsClock(ev) ==
    /\ isRunning
    /\ Route(ev) \in {"post", "profile", "account"}
    /\ ~NormalizeThrows(Route(ev), ev)

\* A client calls processMessage(ev); c is what new Date() reads in the
\* handler: the wall clock has advanced to c since the previous reading.
Deliver(ev, c) ==
    /\ Len(frames) < MaxDeliver
    /\ c \in {now, now + 1}
    /\ ReadsClock(ev) \/ c = now
    /\ now' = c
    /\ frames' = Append(frames, ev)
    /\ ProcessMessageAt(Len(frames) + 1, ev, Append(outcome, "received"), c)
    /\ UNCHANGED <<poolVars, helloVars, normVars, schedVars,
                   isRunning, errorListener, store, applied, collVars>>

\* MetricsScheduler just constructed: tasks = new Map(), isRunning = false.
InitScheduler ==
    /\ schedulerRunning = FALSE
    /\ schedulerTasks = Absent
    /\ cronTasks = <<>>
    /\ startsPending = {}

\* PG_MAX_CONNECTIONS || '20'
DefaultPoolMax == 20

\* The two objects with a resetDb(): JetstreamCollector on its own pool,
\* AggregationService on the pool of the entry point.
Services == {"collector", "aggregation"}

InitCommon ==
    /\ isRunning = FALSE
    /\ tasks = {}
    /\ signals = <<>>
    /\ rejected = {}
    /\ now = 0
    /\ frames = <<>>
    /\ outcome = <<>>
    /\ applied = <<>>
    /\ mainPc = "created"
    /\ sockets = [i \in 1..MaxConnects |-> "none"]
    /\ ws = 0
    /\ timers = 0
    /\ lastCursor = 0
    /\ requests = <<>>
    /\ cwrites = {}
    /\ emitted = <<>>
    /\ feedPos = 0
    /\ poolEnded = FALSE
    /\ badFrames = 0
    /\ collectorErrors = 0
    /\ clients = <<>>
    /\ poolMax = DefaultPoolMax
    /\ resetPc = [svc \in Services |-> "idle"]
    /\ resetHeld = [svc \in Services |-> 0]
    /\ hellos = {}
    /\ record = Absent
    /\ result = Absent
    /\ InitScheduler

\* The processor just constructed, on a store whose schema initDb created.
InitProc ==
    /\ InitCommon
    /\ requireHello = FALSE
    /\ errorListener \in BOOLEAN
    /\ store = EmptyStore
    /\ cursorRow = Absent
    /\ configCursor = Absent

NextProc ==
    \/ Start
    \/ Stop
    \/ \E ev \in ProcEvents, c \in 0..MaxClock : Deliver(ev, c)
    \/ \E t \in tasks, dbOk \in BOOLEAN : WriterDone(t, dbOk)

SpecProc == InitProc /\ [][NextProc]_vars

\* ------------------------------------------------------------- SpecFault
\* The fault-isolation scenario: three events handed to processMessage in
\* order while the processor runs, the second one malformed.
FaultScript == <<"wellformed", "malformed", "wellformed">>

\* The handler of a malformed event throws: during normalization (no record
\* object) or during persistence (the writer's statement raises).  The handler
\* of a well-formed event does not throw.
HandlerThrows(ev) ==
    /\ Route(ev) \in Handlers
    /\ \/ NormalizeThrows(Route(ev), ev)
       \/ ~Writer(Route(ev), EmptyStore, Normalize(Route(ev), ev, 0)).ok

ScriptEvents(what) ==
    IF what = "malformed"
    THEN {ev \in ProcEvents : HandlerThrows(ev)}
    ELSE {ev \in ProcEvents : Route(ev) \in Handlers /\ ~HandlerThrows(ev)}

DeliverScripted(ev, c) ==
    /\ isRunning
    /\ Len(frames) < Len(FaultScript)
    /\ ev \in ScriptEvents(FaultScript[Len(frames) + 1])
    /\ c \in {now, now + 1}
    /\ ReadsClock(ev) \/ c = now
    /\ now' = c
    /\ frames' = Append(frames, ev)
    /\ ProcessMessageAt(Len(frames) + 1, ev, Append(outcome, "received"), c)
    /\ UNCHANGED <<poolVars, helloVars, normVars, schedVars,
                   isRunning, errorListener, store, applied, collVars>>

\* The store stays reachable throughout the scenario.
NextFault ==
    \/ Start
    \/ \E ev \in ProcEvents, c \in 0..MaxClock : DeliverScripted(ev, c)
    \/ \E t \in tasks : WriterDone(t, TRUE)

SpecFault == InitProc /\ [][NextFault]_vars

\* ------------------------------------------------------------- SpecStore
\* The processor on a database that already holds rows: users rows written
\* by another client of the database (the tables of initDb hold them; no
\* writer of the processor can create one), with or without the post.
SeededUser == [handle |-> 0, display_name |-> 0, rows |-> 1]

SeededPost ==
    [cid |-> 0, text |-> 0, created_at |-> 0, indexed_at |-> 0, rows |-> 1]

SeededStores ==
    {[EmptyStore EXCEPT !.users = [d \in Dids |-> Some(SeededUser)],
                        !.posts = p] :
        p \in {[u \in PostUris |-> Absent],
               [u \in PostUris |-> Some(SeededPost)]}}

\* Events handed to the processor in SpecStore: two versions of a post, of a
\* like and of a follow under the same natural key, and the user events.
StoreEvents ==
    {PostEvent("ok", v, 1) : v \in 1..2}
        \cup {Ev(TRUE, "app.bsky.feed.like", "create", FALSE, "ok", v, 1) :
                 v \in 1..2}
        \cup {Ev(TRUE, "app.bsky.graph.follow", "create", FALSE, "ok", v, 1) :
                 v \in 1..2}
        \cup {Ev(TRUE, "app.bsky.actor.profile", "create", FALSE, "ok", 1, 1),
              Ev(FALSE, "", "", TRUE, "ok", 1, 1)}

InitStore ==
    /\ InitCommon
    /\ requireHello = FALSE
    /\ errorListener = TRUE
    /\ store \in SeededStores
    /\ cursorRow = Absent
    /\ configCursor = Absent

\* The database stays reachable.
NextStore ==
    \/ Start
    \/ \E ev \in StoreEvents, c \in 0..MaxClock : Deliver(ev, c)
    \/ \E t \in tasks : WriterDone(t, TRUE)

SpecStore == InitStore /\ [][NextStore]_vars

\* -------------------------------------------------------------- SpecPool
\* The five writers and the pool: one event per writer, the acquisition of
\* the client a step of its own, a store that can become unreachable before
\* or after it.
PoolEvents ==
    {PostEvent("ok", 1, 1),
     Ev(TRUE, "app.bsky.feed.like", "create", FALSE, "ok", 1, 1),
     Ev(TRUE, "app.bsky.graph.follow", "create", FALSE, "ok", 1, 1),
     Ev(TRUE, "app.bsky.actor.profile", "create", FALSE, "ok", 1, 1),
     Ev(FALSE, "", "", TRUE, "ok", 1, 1)}

NextPool ==
    \/ Start
    \/ \E ev \in PoolEvents, c \in 0..MaxClock : Deliver(ev, c)
    \/ \E t \in tasks : Acquire(t)
    \/ \E t \in tasks, dbOk \in BOOLEAN : WriterDone(t, dbOk)

SpecPool == InitProc /\ [][NextPool]_vars

\* ------------------------------------------------------------ the collector
\* resetDb: DROP TABLE IF EXISTS ... cursor_state ...: what is left of the
\* cursor_state row.
ResetDbCursorRow(row) == Absent

\* initDb: SELECT cursor_value FROM cursor_state; lastCursor is assigned only
\* when a row comes back.
InitDbLastCursor(row, lc) == IF row # Absent THEN The(row) ELSE lc

\* buildUrl: the cursor query parameter (Absent: the parameter is not set).
BuildUrlCursor(cfgCursor, lc) ==
    IF cfgCursor # Absent THEN cfgCursor
    ELSE IF lc > 0 THEN Some(Max(0, lc - SafetyMargin))
    ELSE Absent

\* The newest time_us the feed has stamped so far: where a subscription
\* without a cursor starts.
FeedHead ==
    LET ts == {frames[i].time : i \in DOMAIN frames} \cup {0}
    IN  CHOOSE t \in ts : \A u \in ts : u <= t

\* connect(): build the URL from the current lastCursor lc, create the socket.
Connect(lc) ==
    LET n == Len(requests) + 1
        c == BuildUrlCursor(configCursor, lc)
    IN  /\ n <= MaxConnects
        /\ requests' = Append(requests, [cursor |-> c, T |-> lc])
        /\ sockets' = [sockets EXCEPT ![n] = "connecting"]
        /\ ws' = n
        /\ feedPos' = IF c # Absent THEN The(c) ELSE FeedHead

\* Entry point: await processor.start(), then the 'message' listener and the
\* signal handlers are registered.
ProcessorStart ==
    /\ mainPc = "created"
    /\ mainPc' = "started"
    /\ isRunning' = TRUE
    /\ UNCHANGED <<poolVars, helloVars, normVars, schedVars,
                   errorListener, tasks, store, signals, rejected, now,
                   histVars, sockets, ws, timers, lastCursor, cursorRow,
                   configCursor, requests, cwrites, emitted, feedPos,
                   poolEnded, badFrames, collectorErrors>>

\* collector.run(): resetDb() drops every table, initDb() creates them again
\* and reads the cursor row, then connect().
CollectorRun ==
    /\ mainPc = "started"
    /\ mainPc' = "running"
    /\ LET row == ResetDbCursorRow(cursorRow)
           lc == InitDbLastCursor(row, lastCursor)
       IN  /\ cursorRow' = row
           /\ lastCursor' = lc
           /\ Connect(lc)
    /\ store' = EmptyStore
    /\ UNCHANGED <<poolVars, helloVars, normVars, schedVars,
                   isRunning, errorListener, tasks, signals, rejected, now,
                   histVars, timers, configCursor, cwrites, emitted,
                   poolEnded, badFrames, collectorErrors>>

\* run() reaches connect() although the schema could not be established.
CollectorRunFailsConnected ==
    /\ mainPc = "started"
    /\ mainPc' = "failed"
    /\ cursorRow' \in {cursorRow, ResetDbCursorRow(cursorRow)}
    /\ Connect(lastCursor)
    /\ UNCHANGED <<poolVars, helloVars, normVars, schedVars,
                   procVars, histVars, timers, lastCursor, configCursor,
                   cwrites, emitted, poolEnded, badFrames, collectorErrors>>

\* collector.run() when the schema cannot be established: a query of resetDb
\* or initDb raises (before or after the tables were dropped), resetDb()
\* returns false, run() throws before connect() and the entry point's catch
\* block calls process.exit(1).
CollectorRunFails ==
    /\ mainPc = "started"
    /\ mainPc' = "failed"
    /\ cursorRow' \in {cursorRow, ResetDbCursorRow(cursorRow)}
    /\ UNCHANGED <<poolVars, helloVars, normVars, schedVars,
                   procVars, histVars, sockets, ws, timers, lastCursor,
                   configCursor, requests, cwrites, emitted, feedPos,
                   poolEnded, badFrames, collectorErrors>>

Alive == mainPc \notin {"exited", "failed"}

\* sendSubscriberOptions(), sk the state of the sockets when it is called:
\* returns having sent nothing unless this.ws is set and OPEN, else sends
\* {type: 'subscriber-options-update', ready: true} on this.ws.
SendSubscriberOptions(sk) ==
    IF ws = 0 \/ sk[ws] # "open" THEN hellos ELSE hellos \cup {ws}

\* An 'open' handler that never calls sendSubscriberOptions.
OpenHelloNever(sk) == hellos

\* The end of the 'open' handler:
\* if (this.config.requireHello) this.sendSubscriberOptions().
OpenHello(sk) == IF requireHello THEN SendSubscriberOptions(sk) ELSE hellos

\* ws 'open'
WsOpen(i) ==
    /\ Alive
    /\ sockets[i] = "connecting"
    /\ sockets' = [sockets EXCEPT ![i] = "open"]
    /\ hellos' = OpenHello(sockets')
    /\ UNCHANGED <<poolVars, requireHello, normVars, schedVars,
                   procVars, histVars, mainPc, ws, timers, lastCursor,
                   cursorRow, configCursor, requests, cwrites, emitted,
                   feedPos, poolEnded,
                   badFrames, collectorErrors>>

\* The collector emits 'message' for the frame with arrival number seq; the
\* listener of the entry point calls processor.processMessage(message), which
\* runs up to its first await inside the emit.
EmitMessage(seq, ev, oc) ==
    /\ emitted' = Append(emitted, seq)
    /\ ProcessMessageAt(seq, ev, oc, now)

\* A processMessage of the collector that does not test message.time_us.
WsFrameAnyTime(i, ev) ==
    /\ Alive
    /\ sockets[i] \in {"open", "closing"}
    /\ Len(frames) < MaxFrames
    /\ ev.time # 0 => ev.time >= feedPos
    /\ feedPos' = IF ev.time # 0 THEN ev.time ELSE feedPos
    /\ frames' = Append(frames, ev)
    /\ LET seq == Len(frames) + 1
           oc == Append(outcome, "received")
       IN  IF TRUE
           THEN /\ lastCursor' = ev.time
                /\ IF poolEnded
                   THEN /\ EmitMessage(seq, ev, oc)
                        /\ cwrites' = cwrites
                   ELSE /\ cwrites' = cwrites
                               \cup {[seq |-> seq, ev |-> ev, value |-> ev.time]}
                        /\ outcome' = oc
                        /\ UNCHANGED <<emitted, tasks, signals, rejected>>
           ELSE /\ EmitMessage(seq, ev, oc)
                /\ UNCHANGED <<lastCursor, cwrites>>
    /\ UNCHANGED <<poolVars, helloVars, normVars, schedVars,
                   isRunning, errorListener, store, now, applied, mainPc,
                   sockets, ws, timers, cursorRow, configCursor, requests,
                   poolEnded, badFrames, collectorErrors>>

\* ws 'message' with a frame that decodes to ev, up to the first await of
\* collector.processMessage: lastCursor is assigned and the cursor write is
\* issued; an event without time_us is emitted at once.  On an ended pool the
\* query rejects at once, updateCursor swallows it and the event is emitted.
WsFrame(i, ev) ==
    /\ Alive
    /\ sockets[i] \in {"open", "closing"}
    /\ Len(frames) < MaxFrames
    /\ ev.time # 0 => ev.time >= feedPos
    /\ feedPos' = IF ev.time # 0 THEN ev.time ELSE feedPos
    /\ frames' = Append(frames, ev)
    /\ LET seq == Len(frames) + 1
           oc == Append(outcome, "received")
       IN  IF ev.time # 0
           THEN /\ lastCursor' = ev.time
                /\ IF poolEnded
                   THEN /\ EmitMessage(seq, ev, oc)
                        /\ cwrites' = cwrites
                   ELSE /\ cwrites' = cwrites
                               \cup {[seq |-> seq, ev |-> ev, value |-> ev.time]}
                        /\ outcome' = oc
                        /\ UNCHANGED <<emitted, tasks, signals, rejected>>
           ELSE /\ EmitMessage(seq, ev, oc)
                /\ UNCHANGED <<lastCursor, cwrites>>
    /\ UNCHANGED <<poolVars, helloVars, normVars, schedVars,
                   isRunning, errorListener, store, now, applied, mainPc,
                   sockets, ws, timers, cursorRow, configCursor, requests,
                   poolEnded, badFrames, collectorErrors>>

\* ws 'message' with a frame that fails to decode (zlib.unzipSync or
\* JSON.parse throws): the handler's catch block logs the error with
\* console.error and returns; processMessage is not reached.
WsBadFrame(i) ==
    /\ Alive
    /\ sockets[i] \in {"open", "closing"}
    /\ badFrames < MaxBad
    /\ badFrames' = badFrames + 1
    /\ UNCHANGED <<poolVars, helloVars, normVars, schedVars,
                   procVars, histVars, mainPc, sockets, ws, timers,
                   lastCursor, cursorRow, configCursor, requests, cwrites,
                   emitted, feedPos, poolEnded, collectorErrors>>

\* The query of updateCursor completes (INSERT ... ON CONFLICT DO UPDATE SET
\* cursor_value), collector.processMessage resumes and emits 'message'.
CursorWriteDone(w) ==
    /\ Alive
    /\ w \in cwrites
    /\ cwrites' = cwrites \ {w}
    /\ cursorRow' = Some(w.value)
    /\ EmitMessage(w.seq, w.ev, outcome)
    /\ UNCHANGED <<poolVars, helloVars, normVars, schedVars,
                   isRunning, errorListener, store, now, frames, applied,
                   mainPc, sockets, ws, timers, lastCursor, configCursor,
                   requests, feedPos, poolEnded,
                   badFrames, collectorErrors>>

\* ws 'error' (transport error, failed handshake): the handler logs and
\* emits the collector's 'error', to which the entry point listens; it does
\* not reconnect.  The socket is torn down: no frame arrives on it any more
\* and its 'close' follows.
WsError(i) ==
    /\ Alive
    /\ sockets[i] \in {"connecting", "open"}
    /\ sockets' = [sockets EXCEPT ![i] = "errored"]
    /\ collectorErrors' = collectorErrors + 1
    /\ UNCHANGED <<poolVars, helloVars, normVars, schedVars,
                   procVars, histVars, mainPc, ws, timers, lastCursor,
                   cursorRow, configCursor, requests, cwrites, emitted,
                   feedPos, poolEnded, badFrames>>

\* A 'close' handler that marks the disconnect but arms no reconnect timer.
WsCloseNoTimer(i) ==
    /\ Alive
    /\ sockets[i] \in {"connecting", "open", "closing", "aborting", "errored"}
    /\ sockets' = [sockets EXCEPT ![i] = "closed"]
    /\ collectorErrors' = IF sockets[i] = "aborting" THEN collectorErrors + 1
                          ELSE collectorErrors
    /\ UNCHANGED <<poolVars, helloVars, normVars, schedVars,
                   procVars, histVars, mainPc, ws, timers, lastCursor,
                   cursorRow, configCursor, requests, cwrites, emitted,
                   feedPos, poolEnded, badFrames>>

\* ws 'close' (remote close, the close after an error, or the end of a close
\* started by stop()): setTimeout(() => this.reconnect(), reconnectDelay).
\* A socket aborted while connecting emits 'error' right before its 'close'.
WsClose(i) ==
    /\ Alive
    /\ sockets[i] \in {"connecting", "open", "closing", "aborting", "errored"}
    /\ sockets' = [sockets EXCEPT ![i] = "closed"]
    /\ timers' = timers + 1
    /\ collectorErrors' = IF sockets[i] = "aborting" THEN collectorErrors + 1
                          ELSE collectorErrors
    /\ UNCHANGED <<poolVars, helloVars, normVars, schedVars,
                   procVars, histVars, mainPc, ws, lastCursor, cursorRow,
                   configCursor, requests, cwrites, emitted, feedPos,
                   poolEnded, badFrames>>

\* A reconnect that does not wait for a 'close' to arm its timer.
ReconnectUnarmed ==
    /\ mainPc \in {"running", "stopping"}
    /\ timers' = timers
    /\ Connect(lastCursor)
    /\ UNCHANGED <<poolVars, helloVars, normVars, schedVars,
                   procVars, histVars, mainPc, lastCursor, cursorRow,
                   configCursor, cwrites, emitted, poolEnded,
                   badFrames, collectorErrors>>

\* The reconnect timer fires: reconnect() calls connect().
ReconnectTimer ==
    /\ Alive
    /\ timers > 0
    /\ timers' = timers - 1
    /\ Connect(lastCursor)
    /\ UNCHANGED <<poolVars, helloVars, normVars, schedVars,
                   procVars, histVars, mainPc, lastCursor, cursorRow,
                   configCursor, cwrites, emitted, poolEnded,
                   badFrames, collectorErrors>>

\* SIGINT / SIGTERM: processor.stop(), then collector.stop() up to its await
\* on pgPool.end(): the socket is closed and this.ws set to null.  Closing an
\* open socket starts the closing handshake, during which frames still
\* arrive; closing a connecting socket aborts it.
Shutdown ==
    /\ mainPc = "running"
    /\ mainPc' = "stopping"
    /\ isRunning' = FALSE
    /\ sockets' = IF ws # 0 /\ sockets[ws] = "open"
                  THEN [sockets EXCEPT ![ws] = "closing"]
                  ELSE IF ws # 0 /\ sockets[ws] = "connecting"
                  THEN [sockets EXCEPT ![ws] = "aborting"]
                  ELSE sockets
    /\ ws' = 0
    /\ poolEnded' = TRUE
    /\ UNCHANGED <<poolVars, helloVars, normVars, schedVars,
                   errorListener, tasks, store, signals, rejected, now,
                   histVars, timers, lastCursor, cursorRow, configCursor,
                   requests, cwrites, emitted, feedPos, badFrames,
                   collectorErrors>>

\* The pools have ended (the queries in flight are done): process.exit(0).
Exit ==
    /\ mainPc = "stopping"
    /\ cwrites = {}
    /\ tasks = {}
    /\ mainPc' = "exited"
    /\ UNCHANGED <<poolVars, helloVars, normVars, schedVars,
                   procVars, histVars, sockets, ws, timers, lastCursor,
                   cursorRow, configCursor, requests, cwrites, emitted,
                   feedPos, poolEnded,
                   badFrames, collectorErrors>>

\* A cursor an earlier run may have left in cursor_state, and a cursor the
\* configuration may name.
PriorCursors == {Absent, Some(7000000)}
ConfigCursors == {Some(6000000)}

\* The entry point has constructed processor and collector; it subscribes no
\* listener to the processor's 'error' and names no cursor in the collector's
\* configuration.  The database holds whatever an earlier run left.
Init ==
    /\ InitCommon
    /\ requireHello = FALSE
    /\ errorListener = FALSE
    /\ store = EmptyStore
    /\ cursorRow \in PriorCursors
    /\ configCursor = Absent

\* The same wiring around a collector whose JetstreamConfig names a cursor.
InitConfig ==
    /\ InitCommon
    /\ requireHello = FALSE
    /\ errorListener = FALSE
    /\ store = EmptyStore
    /\ cursorRow = Absent
    /\ configCursor \in ConfigCursors

Next ==
    \/ ProcessorStart
    \/ CollectorRun
    \/ CollectorRunFails
    \/ \E i \in 1..MaxConnects : WsOpen(i)
    \/ \E i \in 1..MaxConnects, ev \in FeedEvents : WsFrame(i, ev)
    \/ \E w \in cwrites : CursorWriteDone(w)
    \/ \E t \in tasks, dbOk \in BOOLEAN : WriterDone(t, dbOk)
    \/ \E i \in 1..MaxConnects : WsError(i)
    \/ \E i \in 1..MaxConnects : WsClose(i)
    \/ ReconnectTimer
    \/ Shutdown
    \/ Exit

Spec == Init /\ [][Next]_vars

\* The pipeline on a feed that also delivers frames that do not decode.
NextDecode ==
    \/ Next
    \/ \E i \in 1..MaxConnects : WsBadFrame(i)

SpecDecode == Init /\ [][NextDecode]_vars

SpecConfig == InitConfig /\ [][Next]_vars

\* Startup and steady state: the same wiring on a connection that stays up
\* until the process is told to stop.
NextSteady ==
    \/ ProcessorStart
    \/ CollectorRun
    \/ CollectorRunFails
    \/ \E i \in 1..MaxConnects : WsOpen(i)
    \/ \E i \in 1..MaxConnects, ev \in FeedEvents : WsFrame(i, ev)
    \/ \E w \in cwrites : CursorWriteDone(w)
    \/ \E t \in tasks, dbOk \in BOOLEAN : WriterDone(t, dbOk)
    \/ Shutdown
    \/ Exit

SpecSteady == Init /\ [][NextSteady]_vars

\* The life cycle of the connection alone: the same wiring, with or without
\* a configured cursor, on a feed that delivers no frame.
InitLife ==
    /\ InitCommon
    /\ requireHello = FALSE
    /\ errorListener = FALSE
    /\ store = EmptyStore
    /\ cursorRow \in PriorCursors
    /\ configCursor \in {Absent} \cup ConfigCursors

NextLife ==
    \/ ProcessorStart
    \/ CollectorRun
    \/ CollectorRunFails
    \/ \E i \in 1..MaxConnects : WsOpen(i)
    \/ \E i \in 1..MaxConnects : WsError(i)
    \/ \E i \in 1..MaxConnects : WsClose(i)
    \/ ReconnectTimer
    \/ Shutdown
    \/ Exit

SpecLife == InitLife /\ [][NextLife]_vars

\* The 'close' of a socket that failed or is being closed is delivered.
CloseDelivered ==
    \E i \in 1..MaxConnects :
        sockets[i] \in {"closing", "aborting", "errored"} /\ WsClose(i)

\* Scheduling: a timer set with setTimeout fires once its delay has elapsed,
\* and ws emits 'close' for every socket it tears down.
SpecLifeFair ==
    SpecLife /\ WF_vars(ReconnectTimer) /\ WF_vars(CloseDelivered)

\* The hello handshake: the same wiring with requireHello set or not, on a
\* feed whose frames carry a time_us and no commit.
HelloEvents == {Ev(FALSE, "", "", FALSE, "ok", 1, 1)}

InitHello ==
    /\ InitCommon
    /\ requireHello \in BOOLEAN
    /\ errorListener = FALSE
    /\ store = EmptyStore
    /\ cursorRow = Absent
    /\ configCursor = Absent

NextHello ==
    \/ ProcessorStart
    \/ CollectorRun
    \/ \E i \in 1..MaxConnects : WsOpen(i)
    \/ \E i \in 1..MaxConnects, ev \in HelloEvents : WsFrame(i, ev)
    \/ \E w \in cwrites : CursorWriteDone(w)
    \/ \E i \in 1..MaxConnects : WsError(i)
    \/ \E i \in 1..MaxConnects : WsClose(i)
    \/ ReconnectTimer
    \/ Shutdown
    \/ Exit

SpecHello == InitHello /\ [][NextHello]_vars

\* ------------------------------------------------- the normalizers alone
\* Date arithmetic of ECMAScript, in milliseconds since the epoch.
MsPerMinute == 60000
MsPerHour == 3600000
MsPerDay == 86400000

\* Date.prototype.setMinutes(0, 0, 0) on the time value t in a process whose
\* local time is tz minutes ahead of UTC: the local time of t with minutes,
\* seconds and milliseconds set to 0, converted back to UTC.
SetMinutesZero(t, tz) ==
    LET local == t + tz * MsPerMinute
        day == local \div MsPerDay
        hour == (local % MsPerDay) \div MsPerHour
    IN  (day * MsPerDay + hour * MsPerHour) - tz * MsPerMinute

\* A string is a sequence of UTF-16 code units.  !s of JavaScript.
NoText(text) == text = Absent \/ The(text) = <<>>

\* A range lo-hi of a character class.
InRange(c, lo, hi) == lo <= c /\ c <= hi

\* \w of a regular expression without the u flag: [A-Za-z0-9_].
IsWord(c) ==
    InRange(c, 48, 57) \/ InRange(c, 65, 90) \/ InRange(c, 97, 122) \/ c = 95

\* (text.match(/@/g) || []).length
CountAt(str) == Cardinality({i \in DOMAIN str : str[i] = 64})

\* The end of the run of word characters that starts at position i.
RECURSIVE RunEnd(_, _)
RunEnd(str, i) ==
    IF i <= Len(str) /\ IsWord(str[i]) THEN RunEnd(str, i + 1) ELSE i

\* (text.match(/#\w+/g) || []).length, scanning from position i.
RECURSIVE CountTagRuns(_, _)
CountTagRuns(str, i) ==
    IF i > Len(str) THEN 0
    ELSE IF str[i] = 35 /\ i < Len(str) /\ IsWord(str[i + 1])
    THEN 1 + CountTagRuns(str, RunEnd(str, i + 1))
    ELSE CountTagRuns(str, i + 1)

\* facets.filter(facet => facet.features.some(f => f.$type === type)).length
FacetsWith(facets, type) ==
    Cardinality({i \in DOMAIN facets :
                    \E j \in DOMAIN facets[i] : facets[i][j] = type})

\* countMentions
CountMentions(rec) ==
    IF NoText(rec.text) THEN 0
    ELSE IF rec.facets # Absent
    THEN FacetsWith(The(rec.facets), "app.bsky.richtext.facet#mention")
    ELSE CountAt(The(rec.text))

\* countHashtags
CountHashtags(rec) ==
    IF NoText(rec.text) THEN 0
    ELSE IF rec.facets # Absent
    THEN FacetsWith(The(rec.facets), "app.bsky.richtext.facet#tag")
    ELSE CountTagRuns(The(rec.text), 1)

\* A getImageCount that looks at the top-level embed only.
GetImageCountTopLevel(rec) ==
    IF rec.embed = Absent THEN 0
    ELSE IF The(rec.embed).type = "app.bsky.embed.images"
    THEN Len(The(rec.embed).images)
    ELSE 0

\* getImageCount
GetImageCount(rec) ==
    IF rec.embed = Absent THEN 0
    ELSE LET embed == The(rec.embed)
         IN  IF embed.type = "app.bsky.embed.images" THEN Len(embed.images)
             ELSE IF /\ embed.type = "app.bsky.embed.recordWithMedia"
                     /\ embed.media.type = "app.bsky.embed.images"
             THEN Len(embed.media.images)
             ELSE 0

\* The character classes of detectLanguage, on UTF-16 code units.
IsJapanese(c) ==
    \/ InRange(c, 12352, 12543)     \* \u3040-\u30ff
    \/ InRange(c, 13312, 19903)     \* \u3400-\u4dbf
    \/ InRange(c, 19968, 40959)     \* \u4e00-\u9fff
    \/ InRange(c, 63744, 64255)     \* \uf900-\ufaff
    \/ InRange(c, 65382, 65439)     \* \uff66-\uff9f
IsArabic(c) == InRange(c, 1536, 1791)       \* \u0600-\u06FF
IsCyrillic(c) == InRange(c, 1024, 1279)     \* \u0400-\u04FF

\* regex.test(text) for each of the three classes
TestJapanese(str) == \E i \in DOMAIN str : IsJapanese(str[i])
TestArabic(str) == \E i \in DOMAIN str : IsArabic(str[i])
TestCyrillic(str) == \E i \in DOMAIN str : IsCyrillic(str[i])

\* A detectLanguage that tests the Cyrillic block before the Arabic block.
DetectLanguageRuFirst(text) ==
    IF NoText(text) THEN "unknown"
    ELSE IF TestJapanese(The(text)) THEN "ja"
    ELSE IF TestCyrillic(The(text)) THEN "ru"
    ELSE IF TestArabic(The(text)) THEN "ar"
    ELSE "en"

\* detectLanguage
DetectLanguage(text) ==
    IF NoText(text) THEN "unknown"
    ELSE IF TestJapanese(The(text)) THEN "ja"
    ELSE IF TestArabic(The(text)) THEN "ar"
    ELSE IF TestCyrillic(The(text)) THEN "ru"
    ELSE "en"

\* The derived fields of the postData processPost builds from the record.
PostData(rec) ==
    [hour_timestamp |-> SetMinutesZero(rec.createdAt, rec.tz),
     text_length |-> IF NoText(rec.text) THEN 0 ELSE Len(The(rec.text)),
     has_image |->
         /\ rec.embed # Absent
         /\ The(rec.embed).type \in {"app.bsky.embed.images",
                                      "app.bsky.embed.recordWithMedia"},
     image_count |-> GetImageCount(rec),
     has_mention |-> ~NoText(rec.text) /\ CountAt(The(rec.text)) > 0,
     mention_count |-> CountMentions(rec),
     hashtag_count |-> CountHashtags(rec),
     language |-> DetectLanguage(rec.text)]

\* a || b of JavaScript on optional strings and on optional numbers.
OrString(a, b) == IF a = Absent \/ The(a) = "" THEN b ELSE a
OrNumber(a, b) == IF a = Absent \/ The(a) = 0 THEN b ELSE a

\* profileData in processProfile: { handle: '' } unless the agent has a
\* session and getProfile resolves (lookup = Absent: it rejects).
ProfileData(rec) ==
    IF rec.session /\ rec.lookup # Absent THEN The(rec.lookup)
    ELSE [handle |-> Some("")]

Field(r, f) == IF f \in DOMAIN r THEN r[f] ELSE Absent

\* The userData processProfile builds; Absent stands for null.
UserData(rec) ==
    LET profileData == ProfileData(rec)
    IN  [handle |-> OrString(Field(profileData, "handle"),
                             OrString(rec.handle, Some(""))),
         display_name |-> OrString(rec.displayName, Some("")),
         description |-> OrString(rec.description, Some("")),
         avatar_url |-> OrString(Field(profileData, "avatar"), Some("")),
         follower_count |->
             OrNumber(Field(profileData, "followersCount"), Absent),
         following_count |->
             OrNumber(Field(profileData, "followsCount"), Absent),
         post_count |-> OrNumber(Field(profileData, "postsCount"), Absent)]

\* Inputs.  Code units: '@' 64, '#' 35, 'a' 97, ' ' 32, Hiragana 'a' 12354,
\* Arabic alef 1575, Cyrillic zhe 1046.
Alphabet == {64, 35, 97, 32, 12354, 1575, 1046}
SeqsUpTo(S, n) == UNION {[1..k -> S] : k \in 0..n}
Texts == {Absent} \cup {Some(str) : str \in SeqsUpTo(Alphabet, MaxText)}

\* A facet is the list of the $type of its features.
FacetKinds ==
    {<<"app.bsky.richtext.facet#mention">>, <<"app.bsky.richtext.facet#tag">>,
     <<"app.bsky.richtext.facet#link">>,
     <<"app.bsky.richtext.facet#mention", "app.bsky.richtext.facet#tag">>}
FacetLists ==
    {Absent} \cup {Some(fs) : fs \in SeqsUpTo(FacetKinds, MaxFacets)}

Images == {[type |-> "app.bsky.embed.images", images |-> [i \in 1..n |-> i]] :
              n \in 0..MaxImages}
Embeds ==
    {Absent}
    \cup {Some(e) : e \in Images}
    \cup {Some([type |-> t]) : t \in {"app.bsky.embed.external",
                                       "app.bsky.embed.record",
                                       "app.bsky.embed.video"}}
    \cup {Some([type |-> "app.bsky.embed.recordWithMedia", media |-> m]) :
              m \in Images \cup {[type |-> "app.bsky.embed.external"],
                                  [type |-> "app.bsky.embed.video"]}}

\* createdAt: 10:47:33.000, 10:00:00.000, 10:29:59.999, 10:30:00.000 and
\* 10:59:59.999 of the second day of the epoch, and 00:10:00.000 of the first.
CreatedAts == {125253000, 122400000, 124199999, 124200000, 125999999, 600000}
\* Time zones of the process, in minutes east of UTC: UTC, Europe/Paris,
\* America/New_York, Asia/Kolkata.
TimeZones == {0, 60, -300, 330}

PostRecord(createdAt, tz, text, facets, embed) ==
    [kind |-> "post", createdAt |-> createdAt, tz |-> tz, text |-> text,
     facets |-> facets, embed |-> embed]

\* Post records: every text with every list of facets, every creation time
\* in every time zone, every embed.
PostRecords ==
    {PostRecord(125253000, 0, text, facets, Absent) :
        text \in Texts, facets \in FacetLists}
    \cup {PostRecord(t, tz, Some(<<97>>), Absent, Absent) :
              t \in CreatedAts, tz \in TimeZones}
    \cup {PostRecord(125253000, 0, Some(<<97>>), Absent, embed) :
              embed \in Embeds}

\* What app.bsky.actor.getProfile returns: all fields, or the required ones
\* only, or counts of zero.
Lookups ==
    {Absent,
     Some([handle |-> Some("api.handle"), description |-> Some("api text"),
           avatar |-> Some("api.png"), followersCount |-> Some(5),
           followsCount |-> Some(6), postsCount |-> Some(7)]),
     Some([handle |-> Some("api.handle"), description |-> Some("api text"),
           avatar |-> Some("api.png"), followersCount |-> Some(0),
           followsCount |-> Some(0), postsCount |-> Some(0)]),
     Some([handle |-> Some("api.handle")])}

\* Profile records with the agent logged in or not.
ProfileRecords ==
    {[kind |-> "profile", session |-> session, lookup |-> lookup,
      handle |-> handle, displayName |-> displayName,
      description |-> description] :
        session \in BOOLEAN, lookup \in Lookups,
        handle \in {Absent, Some("rec.handle")},
        displayName \in {Absent, Some("rec name")},
        description \in {Absent, Some(""), Some("rec text")}}

\* processPost up to its call of storePost
ProcessPost ==
    /\ record # Absent
    /\ result = Absent
    /\ The(record).kind = "post"
    /\ result' = Some(PostData(The(record)))
    /\ UNCHANGED <<procVars, histVars, collVars, poolVars, helloVars,
                   schedVars, record>>

\* processProfile up to its call of updateUserProfile
ProcessProfile ==
    /\ record # Absent
    /\ result = Absent
    /\ The(record).kind = "profile"
    /\ result' = Some(UserData(The(record)))
    /\ UNCHANGED <<procVars, histVars, collVars, poolVars, helloVars,
                   schedVars, record>>

InitNorm ==
    /\ isRunning = TRUE
    /\ tasks = {}
    /\ signals = <<>>
    /\ rejected = {}
    /\ now = 0
    /\ frames = <<>>
    /\ outcome = <<>>
    /\ applied = <<>>
    /\ mainPc = "started"
    /\ sockets = [i \in 1..MaxConnects |-> "none"]
    /\ ws = 0
    /\ timers = 0
    /\ lastCursor = 0
    /\ requests = <<>>
    /\ cwrites = {}
    /\ emitted = <<>>
    /\ feedPos = 0
    /\ poolEnded = FALSE
    /\ badFrames = 0
    /\ collectorErrors = 0
    /\ clients = <<>>
    /\ poolMax = DefaultPoolMax
    /\ resetPc = [svc \in Services |-> "idle"]
    /\ resetHeld = [svc \in Services |-> 0]
    /\ hellos = {}
    /\ requireHello = FALSE
    /\ errorListener = TRUE
    /\ store = EmptyStore
    /\ cursorRow = Absent
    /\ configCursor = Absent
    /\ record \in {Some(r) : r \in PostRecords \cup ProfileRecords}
    /\ result = Absent
    /\ InitScheduler

NextNorm ==
    \/ ProcessPost
    \/ ProcessProfile

SpecNorm == InitNorm /\ [][NextNorm]_vars

\* ------------------------------------------------------- resetDb alone
\* pool.connect(): the pool hands out a client while fewer than max are
\* checked out; otherwise the caller waits until one is released (pgConfig
\* sets no connectionTimeoutMillis).  Only resetDb uses the pool meanwhile.
PoolHasClient(svc) == resetHeld[svc] < poolMax

\* resetDb(): client = await pool.connect()
ResetConnect(svc) ==
    /\ resetPc[svc] = "idle"
    /\ PoolHasClient(svc)
    /\ resetHeld' = [resetHeld EXCEPT ![svc] = @ + 1]
    /\ resetPc' = [resetPc EXCEPT ![svc] = "dropping"]
    /\ UNCHANGED <<procVars, histVars, collVars, helloVars, normVars, schedVars,
                   clients, poolMax>>

\* resetDb(): the DROP TABLE query.  ok: it resolves and resetDb goes on to
\* return await initDb() / initializeMetricsSchema(), still holding its
\* client; otherwise the catch block returns false.
ResetDrop(svc, ok) ==
    /\ resetPc[svc] = "dropping"
    /\ resetPc' = [resetPc EXCEPT
                       ![svc] = IF ok THEN "initConnect" ELSE "releaseFalse"]
    /\ UNCHANGED <<procVars, histVars, collVars, helloVars, normVars, schedVars,
                   clients, poolMax, resetHeld>>

\* initDb() / initializeMetricsSchema(): client = await pool.connect()
InitDbConnect(svc) ==
    /\ resetPc[svc] = "initConnect"
    /\ PoolHasClient(svc)
    /\ resetHeld' = [resetHeld EXCEPT ![svc] = @ + 1]
    /\ resetPc' = [resetPc EXCEPT ![svc] = "creating"]
    /\ UNCHANGED <<procVars, histVars, collVars, helloVars, normVars, schedVars,
                   clients, poolMax>>

\* initDb() / initializeMetricsSchema(): the CREATE queries, then the
\* finally block releases the second client.  ok = FALSE: a query raises;
\* initDb returns false, initializeMetricsSchema throws into the catch block
\* of resetDb, which returns false.
InitDbCreate(svc, ok) ==
    /\ resetPc[svc] = "creating"
    /\ resetHeld' = [resetHeld EXCEPT ![svc] = @ - 1]
    /\ resetPc' = [resetPc EXCEPT
                       ![svc] = IF ok THEN "releaseTrue" ELSE "releaseFalse"]
    /\ UNCHANGED <<procVars, histVars, collVars, helloVars, normVars, schedVars,
                   clients, poolMax>>

\* resetDb(): the finally block releases the first client; resetDb returns.
ResetRelease(svc) ==
    /\ resetPc[svc] \in {"releaseTrue", "releaseFalse"}
    /\ resetHeld' = [resetHeld EXCEPT ![svc] = @ - 1]
    /\ resetPc' = [resetPc EXCEPT
                       ![svc] = IF @ = "releaseTrue" THEN "true" ELSE "false"]
    /\ UNCHANGED <<procVars, histVars, collVars, helloVars, normVars, schedVars,
                   clients, poolMax>>

\* The entry point before metricsScheduler.initialize() and collector.run(),
\* with PG_MAX_CONNECTIONS set to any size from 1.
InitReset ==
    /\ isRunning = FALSE
    /\ tasks = {}
    /\ signals = <<>>
    /\ rejected = {}
    /\ now = 0
    /\ frames = <<>>
    /\ outcome = <<>>
    /\ applied = <<>>
    /\ mainPc = "created"
    /\ sockets = [i \in 1..MaxConnects |-> "none"]
    /\ ws = 0
    /\ timers = 0
    /\ lastCursor = 0
    /\ requests = <<>>
    /\ cwrites = {}
    /\ emitted = <<>>
    /\ feedPos = 0
    /\ poolEnded = FALSE
    /\ badFrames = 0
    /\ collectorErrors = 0
    /\ clients = <<>>
    /\ poolMax \in 1..MaxPool
    /\ resetPc = [svc \in Services |-> "idle"]
    /\ resetHeld = [svc \in Services |-> 0]
    /\ hellos = {}
    /\ requireHello = FALSE
    /\ errorListener = FALSE
    /\ store = EmptyStore
    /\ cursorRow = Absent
    /\ configCursor = Absent
    /\ record = Absent
    /\ result = Absent
    /\ InitScheduler

NextReset ==
    \/ \E svc \in Services : ResetConnect(svc)
    \/ \E svc \in Services, ok \in BOOLEAN : ResetDrop(svc, ok)
    \/ \E svc \in Services : InitDbConnect(svc)
    \/ \E svc \in Services, ok \in BOOLEAN : InitDbCreate(svc, ok)
    \/ \E svc \in Services : ResetRelease(svc)

SpecReset == InitReset /\ [][NextReset]_vars

\* Scheduling: a promise that can settle does (a connect() the pool can
\* serve, a query, a finally block); each resetDb() call is one chain of
\* such steps.
ResetStep(svc) ==
    \/ ResetConnect(svc)
    \/ \E ok \in BOOLEAN : ResetDrop(svc, ok)
    \/ InitDbConnect(svc)
    \/ \E ok \in BOOLEAN : InitDbCreate(svc, ok)
    \/ ResetRelease(svc)

SpecResetFair ==
    SpecReset /\ \A svc \in Services : WF_vars(ResetStep(svc))

\* -------------------------------------------------- MetricsScheduler
\* start() up to its await: if (this.isRunning) return; otherwise
\* cron.schedule(...) creates a task, which is active from its creation, and
\* tasks.set('shortTerm', task) puts it in the map, replacing the entry the
\* map had; then runInitialComputations() is awaited.
SchedulerStart ==
    /\ ~schedulerRunning
    /\ Len(cronTasks) < MaxStarts
    /\ cronTasks' = Append(cronTasks, "active")
    /\ schedulerTasks' = Some(Len(cronTasks) + 1)
    /\ startsPending' = startsPending \cup {Len(cronTasks) + 1}
    /\ UNCHANGED <<procVars, histVars, collVars, poolVars, helloVars,
                   normVars, schedulerRunning>>

\* runInitialComputations() of the start() call c has settled (it catches
\* its own errors and always resolves): this.isRunning = true.
SchedulerStarted(c) ==
    /\ c \in startsPending
    /\ startsPending' = startsPending \ {c}
    /\ schedulerRunning' = TRUE
    /\ UNCHANGED <<procVars, histVars, collVars, poolVars, helloVars,
                   normVars, schedulerTasks, cronTasks>>

\* stop(): task.stop() for every entry of the map, tasks.clear(),
\* isRunning = false.
SchedulerStop ==
    /\ cronTasks' = IF schedulerTasks = Absent THEN cronTasks
                    ELSE [cronTasks EXCEPT ![The(schedulerTasks)] = "stopped"]
    /\ schedulerTasks' = Absent
    /\ schedulerRunning' = FALSE
    /\ UNCHANGED <<procVars, histVars, collVars, poolVars, helloVars,
                   normVars, startsPending>>

InitSched ==
    /\ InitCommon
    /\ requireHello = FALSE
    /\ errorListener = FALSE
    /\ store = EmptyStore
    /\ cursorRow = Absent
    /\ configCursor = Absent

NextSched ==
    \/ SchedulerStart
    \/ \E c \in startsPending : SchedulerStarted(c)
    \/ SchedulerStop

SpecSched == InitSched /\ [][NextSched]_vars

\* ================================================================== claims
ErrorEmits == {i \in DOMAIN signals : signals[i].name = "error"}

ErrorEmitsFor(seq) == {i \in ErrorEmits : signals[i].seq = seq}

ScriptDone == Len(frames) = Len(FaultScript) /\ tasks = {}

\* C1 (as claimed): once well-formed A, malformed B and well-formed C have
\* been handed to processMessage in that order and every handler has
\* finished, A and C are persisted and exactly one 'error' has been emitted.
C1_FaultIsolation ==
    ScriptDone =>
        /\ outcome[1] = "persisted"
        /\ outcome[3] = "persisted"
        /\ Cardinality(ErrorEmits) = 1

\* C2 (as claimed): every failed event is reported by an 'error' signal that
\* carries the failure kind and the event, and no processMessage call
\* rejects, whether or not a listener is subscribed to 'error'.
C2_NeverRejects ==
    /\ rejected = {}
    /\ \A s \in DOMAIN outcome :
           outcome[s] = "failed" =>
               \E i \in ErrorEmitsFor(s) : signals[i].type = Route(frames[s])

\* C3 (as claimed): every reconnect that sets the cursor parameter sets it to
\* max(0, T - 5,000,000), never above T, where T is lastCursor when the URL
\* is built; for every configuration.
C3_ReconnectCursor ==
    \A n \in DOMAIN requests :
        (n > 1 /\ requests[n].cursor # Absent) =>
            /\ The(requests[n].cursor) = Max(0, requests[n].T - SafetyMargin)
            /\ The(requests[n].cursor) <= requests[n].T

\* C4 (as claimed): neither lastCursor nor the persisted cursor_state value
\* ever decreases while events are received.
C4_CursorMonotonic ==
    [][/\ lastCursor' >= lastCursor
       /\ (cursorRow # Absent /\ cursorRow' # Absent)
              => The(cursorRow') >= The(cursorRow)]_vars

\* Arrival numbers of the applied events that carry a time_us, in the order
\* they were applied.
AppliedTimed == SelectSeq(applied, LAMBDA s : frames[s].time # 0)

\* C5 (as claimed): once an event of this run has been applied to the store,
\* the persisted cursor is at most the time_us of the last event applied.
C5_CursorBehindApplied ==
    (mainPc \in {"running", "stopping", "exited"}
       /\ cursorRow # Absent /\ AppliedTimed # <<>>)
        => The(cursorRow) <= frames[AppliedTimed[Len(AppliedTimed)]].time

\* A well-formed event with a time_us whose record is not in the store and
\* will not get there: its writer found the store unreachable.
Lost(s) ==
    /\ outcome[s] = "failed"
    /\ frames[s].shape = "ok"
    /\ frames[s].time # 0

\* C6 (as claimed), for the events that failed for good and the connections
\* requested while the collector runs: whenever a connection is requested
\* with a resume cursor, every event received earlier whose record is not
\* persisted lies at or after that cursor.
C6_NoEventLost ==
    [][(mainPc' = "running" /\ Len(requests') > Len(requests)) =>
          LET c == requests'[Len(requests')].cursor
          IN  c # Absent =>
                  \A s \in DOMAIN frames : Lost(s) => frames[s].time >= The(c)
      ]_vars

\* C7 (as claimed): when run() starts with a cursor_state row C > 0 of an
\* earlier run, the row survives startup and the first connection requests
\* max(0, C - 5,000,000).
C7_CursorReadAtStartup ==
    [][(mainPc = "started" /\ mainPc' = "running" /\ cursorRow # Absent) =>
          /\ cursorRow' = cursorRow
          /\ requests'[1].cursor = Some(Max(0, The(cursorRow) - SafetyMargin))
      ]_vars

\* C8 (as claimed): applying a raw event to the store right after the same
\* raw event was applied leaves the store exactly as it was.
C8_Idempotent ==
    [][(applied # <<>> /\ Len(applied') > Len(applied)
          /\ frames[applied'[Len(applied')]] = frames[applied[Len(applied)]])
          => store' = store]_vars

SameKey(e1, e2) ==
    /\ Route(e1) = Route(e2)
    /\ e1.did = e2.did
    /\ e1.rkey = e2.rkey

\* C9 (as claimed): writes for the same natural key reach the store in the
\* order their events arrived.
C9_KeyOrder ==
    \A i, j \in DOMAIN applied :
        (i < j /\ SameKey(frames[applied[i]], frames[applied[j]]))
            => applied[i] < applied[j]

\* C10 (as claimed): 'message' is emitted for the frames in the order the
\* frames arrived.
C10_EmitOrder ==
    \A i, j \in DOMAIN emitted : i < j => emitted[i] < emitted[j]

\* C11 (as claimed): once stop() has been called no new connection is opened:
\* no request is added to the ones made before the stop.
C11_NoConnectAfterStop ==
    [][(mainPc \in {"stopping", "exited"}) => requests' = requests]_vars

\* Some event received so far carries time_us v and its record is persisted.
PersistedAt(v, fr, oc) ==
    \E s \in DOMAIN fr : fr[s].time = v /\ oc[s] = "persisted"

\* C12 (as claimed): after processor.stop() and collector.stop() neither
\* lastCursor nor the persisted cursor moves to a time_us unless the record
\* of an event with that time_us is persisted.
C12_ShutdownCursor ==
    [][(mainPc = "stopping") =>
          /\ lastCursor' # lastCursor
                 => PersistedAt(lastCursor', frames', outcome')
          /\ (cursorRow' # cursorRow /\ cursorRow' # Absent)
                 => PersistedAt(The(cursorRow'), frames', outcome')
      ]_vars

\* The WebSockets created by the collector that are connecting or open.
Live == {i \in 1..MaxConnects : sockets[i] \in {"connecting", "open"}}

\* C13: at every moment at most one WebSocket created by the collector is
\* open or connecting.
C13_SingleLive == Cardinality(Live) <= 1

\* A second socket is live after the first one closed and the timer fired.
C13_Witness ==
    /\ Len(requests) = 2
    /\ sockets[1] = "closed"
    /\ sockets[2] \in {"connecting", "open"}

\* C14 (as claimed): a frame that fails to decode emits no 'message', leaves
\* the cursor and the connection as they are, and an error signal is emitted
\* for it.
C14_DecodeFailure ==
    [][badFrames' > badFrames =>
          /\ emitted' = emitted
          /\ lastCursor' = lastCursor
          /\ cursorRow' = cursorRow
          /\ sockets' = sockets
          /\ collectorErrors' > collectorErrors
      ]_vars

\* Disconnects so far: sockets whose 'close' has been delivered.
Closed == {i \in 1..MaxConnects : sockets[i] = "closed"}

\* Sockets that have disconnected or, after a transport error, are about to.
Disconnected == {i \in 1..MaxConnects : sockets[i] \in {"errored", "closed"}}

Stopped == mainPc \in {"stopping", "exited"}

\* C15: while the collector is not stopped, every disconnect (remote close
\* or transport error) is eventually followed by one new connection attempt
\* and by no more than one: the attempts made and the timers pending always
\* number one more than the disconnects, however many there were.
C15_Reconnects ==
    /\ [](mainPc \in {"running", "stopping", "exited"}
            => Len(requests) + timers = 1 + Cardinality(Closed))
    /\ \A n \in 1..(MaxConnects - 1) :
           (mainPc = "running" /\ Cardinality(Disconnected) >= n)
               ~> (Len(requests) > n \/ Stopped)

\* The second socket has closed as well while the collector runs: the second
\* disconnect, after the reconnect that followed the first.
C15_Witness ==
    /\ mainPc = "running"
    /\ sockets[1] = "closed"
    /\ Len(requests) = 2
    /\ sockets[2] \in {"errored", "closed"}

\* C16: when the schema cannot be established, run() throws and the process
\* ends with no connection opened and no event consumed.
C16_StartupFailure ==
    mainPc = "failed" =>
        /\ requests = <<>>
        /\ \A i \in 1..MaxConnects : sockets[i] = "none"
        /\ frames = <<>>
        /\ emitted = <<>>
        /\ applied = <<>>

\* run() has failed, with the processor started and no cursor row left.
C16_Witness ==
    mainPc = "failed" /\ cursorRow = Absent /\ isRunning

\* The handlers that have been invoked for the event with arrival number s:
\* a handler leaves a query in flight, or a typed signal of its kind.
HandlersOf(s) ==
    {t.h : t \in {u \in tasks : u.seq = s}}
        \cup {signals[i].type : i \in {j \in DOMAIN signals :
                                          /\ signals[j].seq = s
                                          /\ signals[j].name # "message-processed"
                                          /\ signals[j].type \in Handlers}}

\* The classification as claimed: the handlers an event may be dispatched to.
ClaimedHandlers(ev) ==
    IF ~ev.commit THEN (IF ev.handle THEN {"account"} ELSE {})
    ELSE IF ev.collection = "app.bsky.feed.post"
    THEN (IF ev.operation = "create" THEN {"post"} ELSE {})
    ELSE IF ev.collection = "app.bsky.feed.like" THEN {"like"}
    ELSE IF ev.collection = "app.bsky.feed.repost" THEN {"repost"}
    ELSE IF ev.collection = "app.bsky.graph.follow" THEN {"follow"}
    ELSE IF ev.collection = "app.bsky.actor.profile" THEN {"profile"}
    ELSE {}

Unmatched == {s \in DOMAIN frames : ClaimedHandlers(frames[s]) = {}}

TypedSignals(s) ==
    {i \in DOMAIN signals :
        signals[i].seq = s /\ signals[i].name # "message-processed"}

\* C19 (as claimed): for an event dispatched to a handler no typed signal is
\* emitted before the writer is done, and then exactly one: '<kind>-processed'
\* if the writer succeeded, otherwise 'error'; whether or not a listener is
\* subscribed to 'error'.
C19_OneTypedSignal ==
    \A s \in DOMAIN frames :
        /\ outcome[s] = "inflight" => TypedSignals(s) = {}
        /\ outcome[s] \in {"persisted", "failed"} =>
               /\ Cardinality(TypedSignals(s)) = 1
               /\ \A i \in TypedSignals(s) :
                      IF outcome[s] = "persisted"
                      THEN signals[i].name = Route(frames[s]) \o "-processed"
                      ELSE /\ signals[i].name = "error"
                           /\ signals[i].type = Route(frames[s])

\* The writer of handler invocation t completes in this step.
Completes(t) == t \in tasks /\ t \notin tasks'

\* t writes a record that refers to a row the store does not hold yet: an
\* engagement on a post not stored, a follow between users not stored.
ForwardReference(t) ==
    \/ t.h \in {"like", "repost"} /\ store.posts[t.rec.key[1]] = Absent
    \/ /\ t.h = "follow"
       /\ store.users[t.rec.key[1]] = Absent
       /\ store.users[t.rec.key[2]] = Absent

\* C20 (as claimed): on a reachable store, an engagement or follow that
\* refers to rows not stored yet is persisted when its writer completes.
C20_ForwardReference ==
    [][\A t \in tasks :
          (Completes(t) /\ ForwardReference(t))
              => /\ outcome'[t.seq] = "persisted"
                 /\ store' # store]_vars

\* The row a table of the store holds under key k, if any.
RowOf(st, table, k) ==
    CASE table = "posts" -> st.posts[k]
      [] table = "engagements" -> st.engagements[k]
      [] table = "follows" -> st.follows[k]
      [] table = "users" -> st.users[k]

\* The creation fields a row carries besides its key.
CreationFields(row) ==
    DOMAIN row \cap {"created_at", "first_seen_at"}

TableKeys(table) ==
    CASE table = "posts" -> PostUris
      [] table = "engagements" -> EngagementKeys
      [] table = "follows" -> FollowKeys
      [] table = "users" -> Dids

StampOf(row) ==
    IF row # Absent /\ "last_updated_at" \in DOMAIN The(row)
    THEN The(row).last_updated_at ELSE -1

Held == {s \in DOMAIN clients : clients[s] = 0}
InFlight == {t.seq : t \in tasks}

\* C24: every client a writer acquired is released exactly once when the
\* writer finishes, whether its query resolved or threw, and not before; once
\* no writer is in flight no client is held.
C24_ScopedAcquisition ==
    /\ \A s \in DOMAIN clients : clients[s] = IF s \in InFlight THEN 0 ELSE 1
    /\ tasks = {} => Held = {}

\* Two writers have finished, each on a client of the pool: the query of the
\* first resolved, the query of the second threw.
C24_Witness ==
    /\ tasks = {}
    /\ DOMAIN clients = {1, 2}
    /\ outcome = <<"persisted", "failed">>

\* The sockets a frame can be read from.
Receiving == {i \in 1..MaxConnects : sockets[i] \in {"open", "closing"}}

\* C25: with requireHello set, the subscriber-options-update frame has been
\* sent on every connection that is open, the initial one and every
\* reconnect, and was sent before any frame of that connection is processed;
\* with requireHello unset it is never sent.
C25_HelloBeforeData ==
    /\ [](requireHello => \A i \in Receiving : i \in hellos)
    /\ [](~requireHello => hellos = {})
    /\ [][Len(frames') > Len(frames) =>
            \A i \in Receiving : requireHello <=> i \in hellos]_vars

\* requireHello is set, a frame has been processed, the first connection was
\* lost, and the hello was sent on it and on the reconnect that is open now.
C25_Witness ==
    /\ requireHello
    /\ sockets[1] = "closed"
    /\ sockets[2] = "open"
    /\ hellos = {1, 2}
    /\ Len(emitted) >= 1

\* A post record has been normalized / a profile record has.
PostDone == result # Absent /\ The(record).kind = "post"
ProfileDone == result # Absent /\ The(record).kind = "profile"

\* C26 (as claimed): hour_timestamp is the creation time t truncated to the
\* start of its hour: it lies on a whole-hour boundary and
\* hour_timestamp <= t < hour_timestamp + 1 hour.
C26_HourBucket ==
    PostDone =>
        LET t == The(record).createdAt
            h == The(result).hour_timestamp
        IN  /\ h % MsPerHour = 0
            /\ h <= t
            /\ t < h + MsPerHour

\* The record carries structured annotations: facets present and not empty.
HasFacets(rec) == rec.facets # Absent /\ The(rec.facets) # <<>>

\* C27 (as claimed), for records that have a text: with structured
\* annotations mention_count and hashtag_count are the numbers of facets
\* carrying a mention / tag feature, whatever the text; with facets absent or
\* empty they are the number of '@' in the text and the number of
\* '#'+word-character runs.
C27_FacetsOrText ==
    (PostDone /\ ~NoText(The(record).text)) =>
        LET rec == The(record)
            out == The(result)
        IN  IF HasFacets(rec)
            THEN /\ out.mention_count =
                        FacetsWith(The(rec.facets),
                                   "app.bsky.richtext.facet#mention")
                 /\ out.hashtag_count =
                        FacetsWith(The(rec.facets),
                                   "app.bsky.richtext.facet#tag")
            ELSE /\ out.mention_count = CountAt(The(rec.text))
                 /\ out.hashtag_count = CountTagRuns(The(rec.text), 1)

\* C28: image_count is the number of entries of an images embed, the number
\* of entries of the images embed nested in a record-with-media embed, and 0
\* for every other embed and for no embed.
C28_ImageCount ==
    PostDone =>
        LET embed == The(record).embed
            n == The(result).image_count
            IsImages(e) == e.type = "app.bsky.embed.images"
            Wraps(e) == e.type = "app.bsky.embed.recordWithMedia"
        IN  /\ embed = Absent => n = 0
            /\ embed # Absent =>
                   /\ IsImages(The(embed)) => n = Len(The(embed).images)
                   /\ (Wraps(The(embed)) /\ IsImages(The(embed).media))
                          => n = Len(The(embed).media.images)
                   /\ (Wraps(The(embed)) /\ ~IsImages(The(embed).media))
                          => n = 0
                   /\ (~Wraps(The(embed)) /\ ~IsImages(The(embed)))
                          => n = 0

\* A record-with-media embed wrapping an images embed with 2 entries has been
\* counted: image_count = 2.
C28_Witness ==
    /\ PostDone
    /\ The(record).embed # Absent
    /\ The(The(record).embed).type = "app.bsky.embed.recordWithMedia"
    /\ The(The(record).embed).media.type = "app.bsky.embed.images"
    /\ Len(The(The(record).embed).media.images) = 2
    /\ The(result).image_count = 2

\* What the classifier of the claim returns on the string str.
FirstMatch(str) ==
    IF \E i \in DOMAIN str : IsJapanese(str[i]) THEN "ja"
    ELSE IF \E i \in DOMAIN str : IsArabic(str[i]) THEN "ar"
    ELSE IF \E i \in DOMAIN str : IsCyrillic(str[i]) THEN "ru"
    ELSE "en"

LookupAvailable(rec) == rec.session /\ rec.lookup # Absent

\* The field of userData that the field f of the lookup goes to.
UserField(f) ==
    CASE f = "handle" -> "handle"
      [] f = "description" -> "description"
      [] f = "avatar" -> "avatar_url"
      [] f = "followersCount" -> "follower_count"
      [] f = "followsCount" -> "following_count"
      [] f = "postsCount" -> "post_count"

\* C30 (as claimed): with the lookup available every field it provides
\* (handle, description, avatar, counts) is what userData carries; without
\* it handle and description are the raw record's and the three counts are
\* null.
C30_ProfilePrecedence ==
    ProfileDone =>
        LET rec == The(record)
            out == The(result)
        IN  IF LookupAvailable(rec)
            THEN \A f \in DOMAIN The(rec.lookup) :
                     out[UserField(f)] = The(rec.lookup)[f]
            ELSE /\ out.handle = OrString(rec.handle, Some(""))
                 /\ out.description = OrString(rec.description, Some(""))
                 /\ out.follower_count = Absent
                 /\ out.following_count = Absent
                 /\ out.post_count = Absent

\* The well-formed user events whose handler has run to its end.
UserEventsDone ==
    {s \in DOMAIN frames :
        /\ Route(frames[s]) \in {"profile", "account"}
        /\ ~NormalizeThrows(Route(frames[s]), frames[s])
        /\ outcome[s] \in {"persisted", "failed"}}

\* C31 (as claimed): on the schema initDb creates and a reachable store, a
\* well-formed profile or handle-update event processed by a running
\* processor leaves a users row keyed by its did.
C31_UserPersisted ==
    \A s \in UserEventsDone : store.users[frames[s].did] # Absent

\* C32 (as claimed): once run() has reset the schema, whenever no cursor
\* write is in flight the cursor_state row holds the collector's lastCursor
\* (no row while no event with a time_us was received).
C32_CursorInSync ==
    (mainPc \in {"running", "stopping", "exited"} /\ cwrites = {}) =>
        cursorRow = IF lastCursor = 0 THEN Absent ELSE Some(lastCursor)

\* C33: while the processor is not running, a call of processMessage changes
\* no stored record, emits no signal and starts no writer, whatever the
\* event.
C33_NotRunningNoEffect ==
    [][(~isRunning /\ Len(frames') > Len(frames)) =>
          /\ store' = store
          /\ signals' = signals
          /\ tasks' = tasks
          /\ rejected' = rejected]_vars

\* A post handed over while the processor ran was persisted; a second
\* well-formed post handed to processMessage after stop() was dropped.
C33_Witness ==
    /\ mainPc = "stopped"
    /\ Len(frames) = 2
    /\ Route(frames[2]) = "post"
    /\ ~NormalizeThrows("post", frames[2])
    /\ outcome = <<"persisted", "dropped">>

\* How often the frame with arrival number s was emitted as 'message'.
EmitCount(s) == Cardinality({i \in DOMAIN emitted : emitted[i] = s})

\* C34: a decoded event without time_us (or with time_us = 0) leaves
\* lastCursor and the cursor_state row unchanged, issues no cursor write, and
\* is emitted as 'message' exactly once.
C34_NoTimeNoCursor ==
    /\ [][(Len(frames') > Len(frames) /\ frames'[Len(frames')].time = 0) =>
            /\ lastCursor' = lastCursor
            /\ cursorRow' = cursorRow
            /\ cwrites' = cwrites
            /\ emitted' = Append(emitted, Len(frames'))]_vars
    /\ [](\A s \in DOMAIN frames : frames[s].time = 0 => EmitCount(s) = 1)

\* After an event with time_us = 1 whose cursor write completed, an event
\* without time_us was received and emitted; both cursors still hold 1.
C34_Witness ==
    /\ Len(frames) = 2
    /\ frames[1].time = 1
    /\ frames[2].time = 0
    /\ emitted = <<1, 2>>
    /\ lastCursor = 1
    /\ cursorRow = Some(1)

\* C35 (as claimed): for every post record has_image is true exactly when
\* image_count > 0.
C35_HasImageIffCount ==
    PostDone => (The(result).has_image <=> The(result).image_count > 0)

\* resetDb() of svc has returned.
ResetReturned(svc) == resetPc[svc] \in {"true", "false"}

\* C36 (as claimed): for every pool size from 1, a resetDb() that started
\* returns: it never waits forever for a second client while holding the
\* first.
C36_ResetTerminates ==
    \A svc \in Services : (resetPc[svc] # "idle") ~> ResetReturned(svc)

\* The cron tasks that fire.
ActiveTasks == {i \in DOMAIN cronTasks : cronTasks[i] = "active"}

\* C37 (as claimed): at most one 'shortTerm' cron task is active, whatever
\* the interleaving of start() and stop() calls.
C37_OneActiveTask == Cardinality(ActiveTasks) <= 1

\* C38 (as claimed): while isRunning is true the map holds the scheduled
\* 'shortTerm' task; while it is false and no start() is in progress no task
\* is scheduled.
C38_RunningHasTask ==
    /\ schedulerRunning =>
           schedulerTasks # Absent /\ The(schedulerTasks) \in ActiveTasks
    /\ (~schedulerRunning /\ startsPending = {}) =>
           schedulerTasks = Absent /\ ActiveTasks = {}
====
